---- MODULE Spec2Model ----
(***************************************************************************)
(* BamParser.py: the BAM registry parser.  Raw registry values are turned  *)
(* into executable records (BamEntry), gathered per SID (BamParser.parse), *)
(* ranked for the console (print_summary) and exported (export_to_json).   *)
(*                                                                         *)
(* Python integers are unbounded, TLC's are 32 bits wide.  A 64-bit        *)
(* FILETIME is therefore held as four 16-bit limbs, most significant       *)
(* first, and the float arithmetic of _convert_timestamp is carried out on *)
(* binary digits with IEEE-754 double rounding (53 significant bits, round *)
(* half to even).                                                          *)
(***************************************************************************)
EXTENDS Integers, Sequences, FiniteSets, TLC

---------------------------------------------------------------------------
(* Unsigned 64-bit integers: <<l3, l2, l1, l0>> is                         *)
(* l3 * 2^48 + l2 * 2^32 + l1 * 2^16 + l0, every limb in 0..65535.         *)

Zeros(n) == [i \in 1..n |-> 0]

\* The n binary digits of v, 0 <= v < 2^n, most significant first.
ToBits(v, n) == [j \in 1..n |-> (v \div 2^(n - j)) % 2]

\* The integer of a digit sequence short enough for a machine integer.
RECURSIVE BitsValue(_)
BitsValue(bits) ==
    IF bits = <<>> THEN 0
    ELSE 2 * BitsValue(SubSeq(bits, 1, Len(bits) - 1)) + bits[Len(bits)]

\* The 64 binary digits of an integer, and the integer of 64 binary digits.
LimbsToBits(x) == ToBits(x[1], 16) \o ToBits(x[2], 16) \o ToBits(x[3], 16) \o ToBits(x[4], 16)
BitsToLimbs(bits) == [k \in 1..4 |-> BitsValue(SubSeq(bits, 16 * k - 15, 16 * k))]

\* x * k + c modulo 2^64, for k <= 10000 and c <= 10000000: limb by limb
\* from the least significant.
RECURSIVE MulAdd(_, _, _)
MulAdd(x, k, carry) ==
    IF x = <<>> THEN <<>>
    ELSE LET t == x[Len(x)] * k + carry
         IN  Append(MulAdd(SubSeq(x, 1, Len(x) - 1), k, t \div 65536), t % 65536)

MulSmallAdd(x, k, c) == MulAdd(x, k, c)

\* x * 10000000 + c
TimesTenMillion(x, c) == MulSmallAdd(MulSmallAdd(x, 10000, 0), 1000, c)

\* The integer written with the decimal digits ds.
RECURSIVE FromDecimal(_)
FromDecimal(ds) ==
    IF ds = <<>> THEN <<0, 0, 0, 0>>
    ELSE MulSmallAdd(FromDecimal(SubSeq(ds, 1, Len(ds) - 1)), 10, ds[Len(ds)])

\* a < b
Less(a, b) ==
    \E i \in 1..4 :
        /\ a[i] < b[i]
        /\ \A j \in 1..(i - 1) : a[j] = b[j]

---------------------------------------------------------------------------
(* IEEE-754 doubles that are >= 0: [m, e], m the significant digits (the   *)
(* first one is 1, at most 53 of them), 2^e the weight of the first one.   *)
(* Zero is m = <<>>.                                                       *)

FirstOne(bits) ==
    IF \E i \in 1..Len(bits) : bits[i] = 1
    THEN CHOOSE i \in 1..Len(bits) : bits[i] = 1 /\ \A j \in 1..(i - 1) : bits[j] = 0
    ELSE 0

\* sig + 1 for a digit sequence that is not all ones.
Inc(sig) ==
    LET z == CHOOSE i \in 1..Len(sig) : sig[i] = 0 /\ \A j \in (i + 1)..Len(sig) : sig[j] = 1
    IN  [i \in 1..Len(sig) |-> IF i < z THEN sig[i] ELSE IF i = z THEN 1 ELSE 0]

\* Round the digits sig (first one 1, weight 2^e; sticky: digits beyond sig
\* are not all zero) to 53 significant digits, ties to even.
Round53(sig, sticky, e) ==
    IF Len(sig) <= 53 THEN [m |-> sig, e |-> e]
    ELSE LET keep  == SubSeq(sig, 1, 53)
             guard == sig[54]
             rest  == sticky \/ \E i \in 55..Len(sig) : sig[i] = 1
             up    == guard = 1 /\ (rest \/ keep[53] = 1)
         IN  IF ~up THEN [m |-> keep, e |-> e]
             ELSE IF \A i \in 1..53 : keep[i] = 1
                  THEN [m |-> <<1>>, e |-> e + 1]
                  ELSE [m |-> Inc(keep), e |-> e]

\* float(n) for an integer n: what `timestamp / 10000000.0` does to its
\* left operand before dividing.
IntToFloat(n) ==
    LET bits == LimbsToBits(n)
        p    == FirstOne(bits)
    IN  IF p = 0 THEN [m |-> <<>>, e |-> 0]
        ELSE Round53(SubSeq(bits, p, 64), FALSE, 64 - p)

\* Long division of the digits bits by the small integer d (d < 2^24), seven
\* digits at a step: the quotient's digits and the remainder.
RECURSIVE LongDiv(_, _, _, _, _)
LongDiv(bits, i, d, rem, acc) ==
    IF i > Len(bits) THEN [q |-> acc, r |-> rem]
    ELSE LET t == 128 * rem + BitsValue(SubSeq(bits, i, i + 6))
             c == t \div d
         IN  LongDiv(bits, i + 7, d, t % d,
                     acc \o ToBits(c, 7))

\* x / d in double arithmetic, d a small integer that is exact as a double:
\* the exact quotient rounded once.  80 digits past the last digit of m are
\* enough for 53 significant digits and the rounding digit of any quotient
\* (133 digits in all, 19 steps of seven).
FloatDivSmall(x, d) ==
    IF x.m = <<>> THEN x
    ELSE LET num == Zeros(53 - Len(x.m)) \o x.m \o Zeros(80)
             res == LongDiv(num, 1, d, 0, <<>>)
             p   == FirstOne(res.q)
         IN  Round53(SubSeq(res.q, p, Len(res.q)), res.r # 0,
                     (Len(res.q) - p) + (x.e - Len(x.m) + 1) - 80)

\* floor(x) as an integer, for x < 2^64.
FloatFloor(x) ==
    IF x.m = <<>> \/ x.e < 0 THEN <<0, 0, 0, 0>>
    ELSE BitsToLimbs([i \in 1..64 |->
            LET k == i - (64 - (x.e + 1))
            IN  IF k >= 1 /\ k <= Len(x.m) THEN x.m[k] ELSE 0])

---------------------------------------------------------------------------
(* The inputs: the runtime, and the registry the store reader returns.     *)

\* 11644473600: the seconds from 1601-01-01 to 1970-01-01.
EpochSeconds == FromDecimal(<<1, 1, 6, 4, 4, 4, 7, 3, 6, 0, 0>>)

\* 11644473600 * 10000000, the FILETIME of 1970-01-01 (116444736000000000).
EpochFiletime == TimesTenMillion(EpochSeconds, 0)

\* datetime.fromtimestamp fails beyond what the runtime can represent, and
\* how depends on the runtime.  CPython on Windows has a 64-bit time_t and
\* localtime_s refuses times after the year 3000 (OSError); elsewhere the
\* C library converts and datetime refuses years after 9999 (ValueError).
\* limit is in whole seconds since 1601: 3001-01-01 is 44179689600,
\* 10000-01-01 is 265046774400 (the local time zone shifts both by hours).
Platforms ==
    { [exc |-> "OSError",    limit |-> FromDecimal(<<4, 4, 1, 7, 9, 6, 8, 9, 6, 0, 0>>)],
      [exc |-> "ValueError", limit |-> FromDecimal(<<2, 6, 5, 0, 4, 6, 7, 7, 4, 4, 0, 0>>)] }

\* A raw value as the store reader hands it over: a tuple (name, data, type)
\* of `arity` elements; name, data and tag are read only below arity.
RawValue(arity, name, data, tag) ==
    [arity |-> arity, name |-> name, data |-> data, tag |-> tag]

\* The eight bytes struct.pack("<Q", n) writes for the integer n.
PackQ(n) ==
    [i \in 1..8 |-> LET limb == n[4 - ((i - 1) \div 2)]
                    IN  IF i % 2 = 1 THEN limb % 256 ELSE limb \div 256]

---------------------------------------------------------------------------
(* Bounds, and the timestamps the runs use                                 *)

MaxValues     == 2      \* values under one SID key
MaxContainers == 2      \* SID keys in the registry
MaxBuild      == 23200  \* build numbers 0..MaxBuild
MaxTotal      == 10001  \* records found, where only their number matters
Window        == 20     \* FILETIME ticks on either side of 1970-01-01

\* FILETIMEs: 100, 200 and 300 ticks; 2024-01-01 00:00:00.1234567 UTC
\* (133485408001234567); the largest 64-bit value.
Ts100  == FromDecimal(<<1, 0, 0>>)
Ts200  == FromDecimal(<<2, 0, 0>>)
Ts300  == FromDecimal(<<3, 0, 0>>)
TsDate == TimesTenMillion(FromDecimal(<<1, 3, 3, 4, 8, 5, 4, 0, 8, 0, 0>>), 1234567)
TsMax  == <<65535, 65535, 65535, 65535>>

\* The FILETIME j - Window ticks from 1970-01-01, for j in 0..2*Window:
\* 11644473599 * 10000000 + (10000000 - Window + j).
TsNear(j) ==
    TimesTenMillion(FromDecimal(<<1, 1, 6, 4, 4, 4, 7, 3, 5, 9, 9>>),
                    10000000 - Window + j)

SampleTimestamps ==
    {Ts100, Ts200, Ts300, TsDate, TsMax} \cup {TsNear(j) : j \in 0..(2 * Window)}

---------------------------------------------------------------------------
(* BamEntry                                                                *)

\* The eight bytes read most significant first: what ">Q" would unpack.
UnpackQBigEndian(b) ==
    <<b[2] + 256 * b[1], b[4] + 256 * b[3], b[6] + 256 * b[5], b[8] + 256 * b[7]>>

\* struct.unpack("<Q", raw_data[:8])[0]: byte i (from 0) weighs 256^i.
UnpackQ(b) ==
    <<b[7] + 256 * b[8], b[5] + 256 * b[6], b[3] + 256 * b[4], b[1] + 256 * b[2]>>

HexDigits == <<"0", "1", "2", "3", "4", "5", "6", "7",
               "8", "9", "a", "b", "c", "d", "e", "f">>

\* bytes.hex(): two lowercase digits a byte, in order.
Hex(bytes) ==
    [i \in 1..(2 * Len(bytes)) |->
        LET b == bytes[(i + 1) \div 2]
        IN  IF i % 2 = 1 THEN HexDigits[(b \div 16) + 1] ELSE HexDigits[(b % 16) + 1]]

\* A handler that names ValueError alone.
ConvertCaughtValueError == {"ValueError"}

\* The exception classes `except (ValueError, OSError)` catches.
ConvertCaught == {"ValueError", "OSError"}

\* _convert_timestamp: [exc, ret], exc the exception that leaves it ("" for
\* none).  ret is the string: its text, and the number formatted into it
\* (the calendar fields of the date are not computed: `of` is the whole
\* seconds since 1601 that strftime renders).
\*   unix_timestamp = (timestamp / 10000000.0) - 11644473600
\* The subtraction is exact (both operands are multiples of the quotient's
\* last place), so unix_timestamp < 0 is quotient < 11644473600, which for
\* an integer bound is floor(quotient) < 11644473600.
Rendered(timestamp, since1601, plat) ==
    IF Less(since1601, EpochSeconds)
    THEN [exc |-> "", ret |-> [text |-> "Invalid timestamp", of |-> <<>>]]
    ELSE IF Less(since1601, plat.limit)
    THEN [exc |-> "", ret |-> [text |-> "%Y-%m-%d %H:%M:%S", of |-> since1601]]
    ELSE IF plat.exc \in ConvertCaught
    THEN [exc |-> "", ret |-> [text |-> "Invalid timestamp: {timestamp}", of |-> timestamp]]
    ELSE [exc |-> plat.exc, ret |-> [text |-> "", of |-> <<>>]]

_convert_timestamp(timestamp, plat) ==
    Rendered(timestamp, FloatFloor(FloatDivSmall(IntToFloat(timestamp), 10000000)), plat)

\* _convert_timestamp is a function of its arguments: its values on the
\* timestamps the runs use are computed once and looked up afterwards.
ConvertMemo ==
    [a \in SampleTimestamps \X Platforms |-> _convert_timestamp(a[1], a[2])]

Lookup(memo, timestamp, plat) ==
    IF <<timestamp, plat>> \in DOMAIN memo
    THEN memo[<<timestamp, plat>>]
    ELSE _convert_timestamp(timestamp, plat)

Converted(timestamp, plat) == Lookup(ConvertMemo, timestamp, plat)

\* additional_data: None, or raw_data[8:].hex() when len(raw_data) > 8.
AdditionalData(raw_data) ==
    IF Len(raw_data) > 8
    THEN [none |-> FALSE, hex |-> Hex(SubSeq(raw_data, 9, Len(raw_data)))]
    ELSE [none |-> TRUE, hex |-> <<>>]

\* _add_executable: the list after the call.  Whatever is raised inside is
\* caught by `except Exception` and nothing is appended.
AddConverted(executables, executable, timestamp, date) ==
    IF date.exc # "" THEN executables
    ELSE Append(executables,
                [path            |-> executable.name,
                 timestamp       |-> date.ret,
                 raw_timestamp   |-> timestamp,
                 data_size       |-> Len(executable.data),
                 additional_data |-> AdditionalData(executable.data)])

_add_executable(executables, executable, plat) ==
    LET timestamp == UnpackQ(SubSeq(executable.data, 1, 8))
    IN  AddConverted(executables, executable, timestamp, Converted(timestamp, plat))

\* The test with a strict length comparison.
EligibleLonger(executable) == executable.tag = 3 /\ Len(executable.data) > 8

\* if executable[2] == 3 and len(executable[1]) >= 8
Eligible(executable) == executable.tag = 3 /\ Len(executable.data) >= 8

\* One turn of the loop of _process_executables: [executables, escaped].
\* executable[2] raises IndexError on a tuple of fewer than three elements;
\* the handler formats executable[0], which raises again on an empty tuple,
\* and that exception leaves _process_executables.
ProcessValue(executables, executable, plat) ==
    IF executable.arity < 3
    THEN [executables |-> executables, escaped |-> executable.arity < 1]
    ELSE IF Eligible(executable)
    THEN [executables |-> _add_executable(executables, executable, plat), escaped |-> FALSE]
    ELSE [executables |-> executables, escaped |-> FALSE]

\* _process_executables from value i on, the loop ending at the first
\* exception that escapes.
RECURSIVE ProcessFrom(_, _, _, _)
ProcessFrom(r, values, i, plat) ==
    IF i > Len(values) \/ r.escaped THEN r
    ELSE ProcessFrom(ProcessValue(r.executables, values[i], plat), values, i + 1, plat)

\* BamEntry(pyhkey_sid): the entry built, and whether __init__ raised.
NewEntry(sid, r) == [sid |-> sid, executables |-> r.executables, escaped |-> r.escaped]

BamEntry(pyhkey_sid, plat) ==
    NewEntry(pyhkey_sid.name,
             ProcessFrom([executables |-> <<>>, escaped |-> FALSE], pyhkey_sid.values, 1, plat))

\* BamEntry.to_dict
to_dict(entry) ==
    [sid |-> entry.sid,
     executable_count |-> Len(entry.executables),
     executables |-> entry.executables]

---------------------------------------------------------------------------
(* BamParser                                                               *)

LegacyPath == "HKEY_LOCAL_MACHINE\\SYSTEM\\CurrentControlSet\\Services\\bam\\UserSettings"
StatePath  == "HKEY_LOCAL_MACHINE\\SYSTEM\\CurrentControlSet\\Services\\bam\\State\\UserSettings"

\* Python's None where a path string is expected.
None == "<None>"

\* str(n) for n >= 0, as its decimal digits.
RECURSIVE Str(_)
Str(n) == IF n < 10 THEN <<n>> ELSE Append(Str(n \div 10), n % 10)

\* int(s) for a string of decimal digits.
RECURSIVE Int_(_)
Int_(s) == IF s = <<>> THEN 0 ELSE 10 * Int_(SubSeq(s, 1, Len(s) - 1)) + s[Len(s)]

\* The dict SUPPORTED_BUILDS: its keys are the build numbers as strings.
SUPPORTED_BUILDS ==
    (<<1, 6, 2, 9, 9>> :> LegacyPath) @@ (<<1, 7, 1, 3, 4>> :> LegacyPath) @@
    (<<1, 7, 7, 6, 3>> :> StatePath) @@ (<<1, 8, 3, 6, 2>> :> StatePath) @@
    (<<1, 8, 3, 6, 3>> :> StatePath) @@ (<<1, 9, 0, 4, 1>> :> StatePath) @@
    (<<1, 9, 0, 4, 2>> :> StatePath) @@ (<<1, 9, 0, 4, 3>> :> StatePath) @@
    (<<1, 9, 0, 4, 4>> :> StatePath) @@ (<<1, 9, 0, 4, 5>> :> StatePath) @@
    (<<2, 2, 0, 0, 0>> :> StatePath) @@ (<<2, 2, 6, 2, 1>> :> StatePath) @@
    (<<2, 2, 6, 3, 1>> :> StatePath)

\* get_registry_path with the legacy range opening at build 16000.
get_registry_path_from_16000(build_number) ==
    IF build_number \in DOMAIN SUPPORTED_BUILDS THEN SUPPORTED_BUILDS[build_number]
    ELSE LET build_num == Int_(build_number)
         IN  IF build_num >= 22000 THEN StatePath
             ELSE IF build_num >= 17763 THEN StatePath
             ELSE IF build_num >= 16000 THEN LegacyPath
             ELSE None

\* get_registry_path, self.build_number being build_number.
get_registry_path(build_number) ==
    IF build_number \in DOMAIN SUPPORTED_BUILDS THEN SUPPORTED_BUILDS[build_number]
    ELSE LET build_num == Int_(build_number)
         IN  IF build_num >= 22000 THEN StatePath
             ELSE IF build_num >= 17763 THEN StatePath
             ELSE IF build_num >= 16299 THEN LegacyPath
             ELSE None

\* The append without the `if bam_entry.executables` before it.
EmitEntryAlways(bam_entries, entry) == Append(bam_entries, to_dict(entry))

\* if bam_entry.executables: bam_entries.append(bam_entry.to_dict())
EmitEntry(bam_entries, entry) ==
    IF entry.executables # <<>> THEN Append(bam_entries, to_dict(entry)) ELSE bam_entries

\* The body of the loop of parse for one SID key: a BamEntry whose
\* construction raised is logged and passed over (`continue`).
ParseKey(bam_entries, bam_entry) ==
    IF bam_entry.escaped THEN bam_entries ELSE EmitEntry(bam_entries, bam_entry)

\* The loop of parse over the SID keys from key i on.
RECURSIVE ParseFrom(_, _, _, _)
ParseFrom(bam_entries, sids, i, plat) ==
    IF i > Len(sids) THEN bam_entries
    ELSE ParseFrom(ParseKey(bam_entries, BamEntry(sids[i], plat)), sids, i + 1, plat)

\* parse: [raised, path, read, bam_entries].  raised is the exception that
\* leaves parse ("" for none), path the registry path resolved, read whether
\* the registry was opened.  reg is the registry at that path: whether it
\* can be opened, and its SID subkeys.
parse(build_number, reg, plat) ==
    LET registry_path == get_registry_path(build_number)
    IN  IF registry_path = None
        THEN [raised |-> "ValueError", path |-> registry_path, read |-> FALSE,
              bam_entries |-> <<>>]
        ELSE IF ~reg.accessible
        THEN [raised |-> "Exception", path |-> registry_path, read |-> TRUE,
              bam_entries |-> <<>>]
        ELSE [raised |-> "", path |-> registry_path, read |-> TRUE,
              bam_entries |-> ParseFrom(<<>>, reg.subkeys, 1, plat)]

\* The number of entries where the sum of their counts belongs.
SumCountsEntries(bam_data) == Len(bam_data)

\* sum(entry['executable_count'] for entry in bam_data)
RECURSIVE SumCounts(_)
SumCounts(bam_data) ==
    IF bam_data = <<>> THEN 0
    ELSE bam_data[1].executable_count + SumCounts(Tail(bam_data))

\* export_data of export_to_json (the wall-clock export_timestamp left out).
ExportData(build_number, bam_data) ==
    [metadata |-> [windows_build     |-> build_number,
                   total_entries     |-> Len(bam_data),
                   total_executables |-> SumCounts(bam_data)],
     bam_entries |-> bam_data]

\* exe['sid'] = entry['sid']
WithSid(exe, sid) ==
    [path |-> exe.path, timestamp |-> exe.timestamp, raw_timestamp |-> exe.raw_timestamp,
     data_size |-> exe.data_size, additional_data |-> exe.additional_data, sid |-> sid]

TagAll(exes, sid) == [i \in 1..Len(exes) |-> WithSid(exes[i], sid)]

\* bam_data once print_summary has added the 'sid' key to every executable
\* (the dicts in all_executables are the dicts of bam_data).
RECURSIVE Tagged(_)
Tagged(bam_data) ==
    IF bam_data = <<>> THEN <<>>
    ELSE <<[bam_data[1] EXCEPT !.executables = TagAll(@, bam_data[1].sid)]>>
             \o Tagged(Tail(bam_data))

\* all_executables before the sort: entry by entry, in list order.
RECURSIVE Flatten(_)
Flatten(tagged) ==
    IF tagged = <<>> THEN <<>> ELSE tagged[1].executables \o Flatten(Tail(tagged))

\* An insertion that puts exe before the elements of equal key: a descending
\* sort that is not stable.
RECURSIVE InsertDescBeforeEqual(_, _)
InsertDescBeforeEqual(sorted, exe) ==
    IF sorted = <<>> THEN <<exe>>
    ELSE IF ~Less(exe.raw_timestamp, sorted[1].raw_timestamp)
    THEN <<exe>> \o sorted
    ELSE <<sorted[1]>> \o InsertDescBeforeEqual(Tail(sorted), exe)

\* Where list.sort(key=raw_timestamp, reverse=True) puts exe in a list it
\* has sorted: after every element whose key is not smaller (the sort is
\* stable, reverse=True included).
RECURSIVE InsertDesc(_, _)
InsertDesc(sorted, exe) ==
    IF sorted = <<>> THEN <<exe>>
    ELSE IF Less(sorted[1].raw_timestamp, exe.raw_timestamp)
    THEN <<exe>> \o sorted
    ELSE <<sorted[1]>> \o InsertDesc(Tail(sorted), exe)

\* all_executables.sort(key=lambda x: x['raw_timestamp'], reverse=True)
RECURSIVE SortDesc(_)
SortDesc(all_executables) ==
    IF all_executables = <<>> THEN <<>>
    ELSE InsertDesc(SortDesc(SubSeq(all_executables, 1, Len(all_executables) - 1)),
                    all_executables[Len(all_executables)])

\* display_count = min(top_count, len(all_executables))
DisplayCount(top, n) == IF top < n THEN top ELSE n

\* The K of "... and K more executables"; 0 when the line is not printed.
Remaining(n, display_count) == IF n > display_count THEN n - display_count ELSE 0

\* The return value of get_user_choice for a menu choice other than 7.
MenuCount(choice) ==
    CASE choice = 1 -> 10
      [] choice = 2 -> 20
      [] choice = 3 -> 30
      [] choice = 4 -> 50
      [] choice = 5 -> 100
      [] choice = 6 -> 9999
      [] choice = 8 -> -1

---------------------------------------------------------------------------
(* State                                                                   *)

VARIABLES
    build,          \* windows.system.build_number
    store,          \* the registry under the BAM path: [accessible, subkeys]
    platform,       \* the runtime's datetime range (an element of Platforms)
    pc,             \* where the program stands
    top_count,      \* what get_user_choice returned
    summary,        \* print_summary: bam_data as it leaves, and the lines shown
    n_all,          \* len(all_executables) in print_summary
    display_count,  \* display_count in print_summary
    remaining,      \* the K of "... and K more executables", 0 when not printed
    export_data,    \* export_to_json: the object built
    exported,       \* export_to_json: the file was written
    exit_code,      \* what main returned, -1 while it runs
    idx,            \* _process_executables: the value the loop stands at
    executables,    \* BamEntry.executables
    parsed          \* the outcome of a call of parse

vars == <<build, store, platform, pc, top_count, summary, n_all, display_count,
          remaining, export_data, exported, exit_code, idx, executables, parsed>>

---------------------------------------------------------------------------
(* The registries the runs start from                                      *)

SeqsUpTo(S, n) == UNION {[1..k -> S] : k \in 0..n}

\* Values for one SID key, every type and length class among them, and two
\* that are no (name, data, type) tuple.
EntryData ==
    { <<>>, <<1, 2, 3, 4, 5, 6, 7>>, PackQ(TsDate), PackQ(Ts100) \o <<0>>,
      PackQ(TsMax) \o <<171, 205>> }

EntrySamples ==
    { RawValue(3, "\\Device\\HarddiskVolume3\\a.exe", d, t) : d \in EntryData, t \in {3, 4} }
        \cup { RawValue(2, "broken", <<>>, 0), RawValue(0, "", <<>>, 0) }

NearSamples ==
    { RawValue(3, "\\Device\\HarddiskVolume3\\near.exe", PackQ(TsNear(j)), 3) :
        j \in 0..(2 * Window) }

SidKey(name, values) == [name |-> name, values |-> values]

Registry(accessible, subkeys) == [accessible |-> accessible, subkeys |-> subkeys]

\* Values of the parse runs: three timestamps (the same value under two SID
\* keys is a tie), a skipped value and one that is no tuple.
ParseSamples ==
    { RawValue(3, "a.exe", PackQ(Ts100), 3), RawValue(3, "b.exe", PackQ(Ts300), 3),
      RawValue(3, "c.exe", PackQ(Ts200), 3), RawValue(3, "Version", <<1, 0, 0, 0>>, 4),
      RawValue(0, "", <<>>, 0) }

SidNames == <<"S-1-5-18", "S-1-5-21-1001", "S-1-5-21-1002", "S-1-5-21-1003">>

\* The registries of at most MaxContainers SID keys, key i named SidNames[i].
ParseStores ==
    { Registry(TRUE, [i \in 1..Len(vs) |-> SidKey(SidNames[i], vs[i])]) :
        vs \in SeqsUpTo(SeqsUpTo(ParseSamples, MaxValues), MaxContainers) }

NoSummary == [bam_data |-> <<>>, shown |-> <<>>]
NoExport  == ExportData(<<>>, <<>>)
NoParse   == [raised |-> "", path |-> "", read |-> FALSE, bam_entries |-> <<>>]

\* Everything but the inputs and pc, as it is before main has done anything.
Fresh ==
    /\ top_count = 0
    /\ summary = NoSummary
    /\ display_count = 0
    /\ remaining = 0
    /\ export_data = NoExport
    /\ exported = FALSE
    /\ exit_code = -1
    /\ idx = 1
    /\ executables = <<>>
    /\ parsed = NoParse

WindowsRuntime == CHOOSE p \in Platforms : p.exc = "OSError"

---------------------------------------------------------------------------
(* main: the menu, the summary, the export                                 *)

\* What the user may type at the menu: Enter, a number, something that is no
\* number, Ctrl-C.
ChoiceInputs ==
    { [kind |-> "enter", n |-> 0], [kind |-> "text", n |-> 0], [kind |-> "interrupt", n |-> 0] }
        \cup { [kind |-> "int", n |-> k] : k \in 0..9 }

CustomInputs ==
    { [kind |-> "text", n |-> 0], [kind |-> "interrupt", n |-> 0] }
        \cup { [kind |-> "int", n |-> k] : k \in {0, 1, 2, 3, 1000, 1001} }

\* main, once get_user_choice has returned count.
Chosen(count) ==
    /\ top_count' = count
    /\ IF count = -1
       THEN pc' = "Done" /\ exit_code' = 0
       ELSE pc' = "Summary" /\ exit_code' = exit_code

\* get_user_choice at the menu prompt, one input.
ChooseCount ==
    /\ pc = "AwaitingCount"
    /\ \E in \in ChoiceInputs :
          CASE in.kind = "enter" -> Chosen(10)
            [] in.kind = "interrupt" -> Chosen(-1)
            [] in.kind = "int" /\ in.n \in (1..6) \cup {8} -> Chosen(MenuCount(in.n))
            [] in.kind = "int" /\ in.n = 7 ->
                    pc' = "AwaitingCustomCount" /\ UNCHANGED <<top_count, exit_code>>
            [] OTHER -> UNCHANGED <<pc, top_count, exit_code>>
    /\ UNCHANGED <<build, store, platform, summary, n_all, display_count, remaining,
                   export_data, exported, idx, executables, parsed>>

\* get_user_choice at the custom number prompt, one input.
ChooseCustom ==
    /\ pc = "AwaitingCustomCount"
    /\ \E in \in CustomInputs :
          CASE in.kind = "interrupt" -> Chosen(-1)
            [] in.kind = "int" /\ 1 <= in.n /\ in.n <= 1000 -> Chosen(in.n)
            [] OTHER -> UNCHANGED <<pc, top_count, exit_code>>
    /\ UNCHANGED <<build, store, platform, summary, n_all, display_count, remaining,
                   export_data, exported, idx, executables, parsed>>

\* parser.print_summary(top_count), and main's handler when it raises.
\* summary is bam_data as print_summary leaves it and the executables it
\* printed.  With no entry (`if bam_data:` fails) nothing is collected or
\* printed.
PrintSummary ==
    /\ pc = "Summary"
    /\ \E bam_result \in {parse(Str(build), store, platform)} :
          IF bam_result.raised # ""
          THEN /\ pc' = "Done"
               /\ exit_code' = 1
               /\ UNCHANGED <<summary, n_all, display_count, remaining>>
          ELSE \E bam_data \in {Tagged(bam_result.bam_entries)} :
               \E all_executables \in {SortDesc(Flatten(bam_data))} :
               \E count \in {DisplayCount(top_count, Len(all_executables))} :
                  /\ pc' = "AwaitingExportChoice"
                  /\ exit_code' = exit_code
                  /\ summary' = [bam_data |-> bam_data,
                                 shown |-> SubSeq(all_executables, 1, count)]
                  /\ n_all' = Len(all_executables)
                  /\ display_count' = count
                  /\ remaining' = Remaining(Len(all_executables), count)
    /\ UNCHANGED <<build, store, platform, top_count, export_data, exported, idx,
                   executables, parsed>>

\* The answers to "export results to JSON file?": yes, no, exit, anything
\* else, Ctrl-C.
ExportInputs == {"y", "n", "exit", "other", "interrupt"}

\* main's export prompt answered "y": parser.export_to_json(), and main's
\* handler when it raises.  export_data is built from what parse returns;
\* opening or writing the file fails when it is not writable.
ExportYes ==
    /\ pc = "AwaitingExportChoice"
    /\ \E writable \in BOOLEAN :
          \E bam_data \in {parse(Str(build), store, platform)} :
              IF bam_data.raised # ""
              THEN /\ exit_code' = 1
                   /\ UNCHANGED <<export_data, exported>>
              ELSE /\ export_data' = ExportData(Str(build), bam_data.bam_entries)
                   /\ exported' = writable
                   /\ exit_code' = IF writable THEN 0 ELSE 1
    /\ pc' = "Done"
    /\ UNCHANGED <<build, store, platform, top_count, summary, n_all, display_count,
                   remaining, idx, executables, parsed>>

\* main's export prompt, any other answer: asked again after an answer it
\* does not know, done with exit code 0 after the rest.
ExportOther ==
    /\ pc = "AwaitingExportChoice"
    /\ \E in \in ExportInputs \ {"y"} :
          IF in = "other" THEN UNCHANGED <<pc, exit_code>>
          ELSE pc' = "Done" /\ exit_code' = 0
    /\ UNCHANGED <<build, store, platform, top_count, summary, n_all, display_count,
                   remaining, export_data, exported, idx, executables, parsed>>

\* A supported build with every registry, and an unsupported build and an
\* inaccessible registry once each.
Init ==
    /\ pc = "AwaitingCount"
    /\ platform = WindowsRuntime
    /\ n_all = 0
    /\ \/ build = 19045 /\ store \in ParseStores
       \/ build = 15000 /\ store = Registry(TRUE, <<>>)
       \/ build = 22631 /\ store = Registry(FALSE, <<>>)
    /\ Fresh

Next == ChooseCount \/ ChooseCustom \/ PrintSummary \/ ExportYes \/ ExportOther

Spec == Init /\ [][Next]_vars

---------------------------------------------------------------------------
(* BamEntry(pyhkey_sid), one turn of its loop at a step                    *)

\* The SID key whose entry is being built.
Key == store.subkeys[1]

\* for executable in pyhkey_sid.values: one turn.  idx counts the values
\* the loop has taken, the one that raised out of it included.
ProcessNext ==
    /\ pc = "loop"
    /\ idx <= Len(Key.values)
    /\ \E r \in {ProcessValue(executables, Key.values[idx], platform)} :
          /\ executables' = r.executables
          /\ pc' = IF r.escaped THEN "raised" ELSE "loop"
    /\ idx' = idx + 1
    /\ UNCHANGED <<build, store, platform, top_count, summary, n_all, display_count,
                   remaining, export_data, exported, exit_code, parsed>>

\* _process_executables returns: no values at all, or the loop is through.
ProcessEnd ==
    /\ pc = "loop"
    /\ idx > Len(Key.values)
    /\ pc' = "returned"
    /\ UNCHANGED <<build, store, platform, top_count, summary, n_all, display_count,
                   remaining, export_data, exported, exit_code, idx, executables, parsed>>

\* One SID key: at most MaxValues values of every class, or one value whose
\* timestamp is within Window ticks of 1970-01-01; either runtime.
InitEntry ==
    /\ pc = "loop"
    /\ build = 19045
    /\ platform \in Platforms
    /\ n_all = 0
    /\ \E vs \in SeqsUpTo(EntrySamples, MaxValues) \cup {<<v>> : v \in NearSamples} :
          store = Registry(TRUE, <<SidKey(SidNames[1], vs)>>)
    /\ Fresh

NextEntry == ProcessNext \/ ProcessEnd

SpecEntry == InitEntry /\ [][NextEntry]_vars

---------------------------------------------------------------------------
(* parse on every build number                                             *)

\* parser.parse()
ParseCall ==
    /\ pc = "parse"
    /\ parsed' = parse(Str(build), store, platform)
    /\ pc' = "parsed"
    /\ UNCHANGED <<build, store, platform, top_count, summary, n_all, display_count,
                   remaining, export_data, exported, exit_code, idx, executables>>

InitBuild ==
    /\ pc = "parse"
    /\ build \in 0..MaxBuild
    /\ platform = WindowsRuntime
    /\ n_all = 0
    /\ store = Registry(TRUE, <<SidKey(SidNames[1], <<RawValue(3, "a.exe", PackQ(Ts100), 3)>>)>>)
    /\ Fresh

NextBuild == ParseCall

SpecBuild == InitBuild /\ [][NextBuild]_vars

---------------------------------------------------------------------------
(* The menu and the count of print_summary, for any number of records      *)

\* print_summary from `display_count = min(...)` on, all_executables having
\* n_all elements.
ShowCount ==
    /\ pc = "Summary"
    /\ display_count' = DisplayCount(top_count, n_all)
    /\ remaining' = Remaining(n_all, DisplayCount(top_count, n_all))
    /\ pc' = "AwaitingExportChoice"
    /\ UNCHANGED <<build, store, platform, top_count, summary, n_all, export_data,
                   exported, exit_code, idx, executables, parsed>>

InitCount ==
    /\ pc = "AwaitingCount"
    /\ build = 19045
    /\ platform = WindowsRuntime
    /\ n_all \in 0..MaxTotal
    /\ store = Registry(TRUE, <<>>)
    /\ Fresh

NextCount == ChooseCount \/ ChooseCustom \/ ShowCount

SpecCount == InitCount /\ [][NextCount]_vars

---------------------------------------------------------------------------
(* The properties                                                          *)

\* A raw value that is a (name, data, type) tuple of type 3 with at least
\* eight bytes of data.
Accepted(v) == v.arity = 3 /\ v.tag = 3 /\ Len(v.data) >= 8

\* The sum of bytes[i] * 256^i, i counted from 0.
RECURSIVE LittleEndian(_)
LittleEndian(bytes) ==
    IF bytes = <<>> THEN <<0, 0, 0, 0>>
    ELSE MulSmallAdd(LittleEndian(Tail(bytes)), 256, bytes[1])

\* The lowercase hexadecimal digits and the bytes a string of them spells.
LowerHex == <<"0", "1", "2", "3", "4", "5", "6", "7",
              "8", "9", "a", "b", "c", "d", "e", "f">>

HexValue(c) == CHOOSE d \in 0..15 : LowerHex[d + 1] = c

IsLowerHex(text) == \A i \in 1..Len(text) : \E d \in 0..15 : LowerHex[d + 1] = text[i]

Unhex(text) == [i \in 1..(Len(text) \div 2) |-> 16 * HexValue(text[2 * i - 1]) + HexValue(text[2 * i])]

\* The value the loop of _process_executables takes in this step.
Taken == Key.values[idx]

\* C1: every turn of the loop of _process_executables appends exactly one
\* record when the value has type 3 and at least eight bytes of data, and
\* appends nothing for every other value; the records already there stay.
OneRecordPerEligibleValue ==
    [][idx' = idx + 1 =>
          /\ idx <= Len(Key.values)
          /\ Len(executables') = Len(executables) + (IF Accepted(Taken) THEN 1 ELSE 0)
          /\ SubSeq(executables', 1, Len(executables)) = executables]_vars

\* The loop has returned from an eligible value followed by a value of type
\* 3 with seven bytes, with one record.
EligibleThenShortProcessed ==
    /\ pc = "returned"
    /\ Len(Key.values) = 2
    /\ Accepted(Key.values[1])
    /\ Key.values[2].arity = 3 /\ Key.values[2].tag = 3 /\ Len(Key.values[2].data) = 7
    /\ Len(executables) = 1

\* C2: the record appended for an accepted value has the little-endian
\* integer of data[0..7] as raw_timestamp, len(data) as data_size, the name
\* as path, and as additional_data the lowercase hex of data[8..] in order
\* when there are more than eight bytes, None when there are eight.
RecordFieldsFromRawValue ==
    [][(idx' = idx + 1 /\ Accepted(Taken)) =>
          /\ Len(executables') >= 1
          /\ LET record == executables'[Len(executables')]
                 data   == Taken.data
             IN  /\ record.raw_timestamp = LittleEndian(SubSeq(data, 1, 8))
                 /\ PackQ(record.raw_timestamp) = SubSeq(data, 1, 8)
                 /\ record.data_size = Len(data)
                 /\ record.path = Taken.name
                 /\ Len(data) = 8 => record.additional_data.none
                 /\ Len(data) > 8 =>
                       /\ ~record.additional_data.none
                       /\ IsLowerHex(record.additional_data.hex)
                       /\ Len(record.additional_data.hex) = 2 * (Len(data) - 8)
                       /\ Unhex(record.additional_data.hex) = SubSeq(data, 9, Len(data))]_vars

\* Two records: one of a value of eight bytes, without additional data, and
\* one of a value of ten bytes whose last two are ab cd.
RecordsWithAndWithoutAdditionalData ==
    /\ pc = "returned"
    /\ Len(executables) = 2
    /\ executables[1].data_size = 8 /\ executables[1].additional_data.none
    /\ executables[1].raw_timestamp = TsDate
    /\ executables[2].data_size = 10
    /\ executables[2].additional_data = [none |-> FALSE, hex |-> <<"a", "b", "c", "d">>]
    /\ executables[2].raw_timestamp = TsMax

\* The FILETIME one whole second before 1970-01-01.
SecondBefore1970 == TimesTenMillion(FromDecimal(<<1, 1, 6, 4, 4, 4, 7, 3, 5, 9, 9>>), 0)

\* The FILETIME from which datetime.fromtimestamp fails on the runtime.
OutOfRangeFrom(plat) == TimesTenMillion(plat.limit, 0)

\* C3: an eligible value always gets its record, raw_timestamp intact,
\* whatever becomes of the conversion: 'Invalid timestamp' when the time is
\* before 1970, 'Invalid timestamp: <raw_timestamp>' when the runtime cannot
\* represent it, and nothing but these two and a formatted date.
UnrenderableTimestampKeepsRecord ==
    [][(idx' = idx + 1 /\ Accepted(Taken)) =>
          /\ Len(executables') = Len(executables) + 1
          /\ LET record == executables'[Len(executables')]
                 raw    == LittleEndian(SubSeq(Taken.data, 1, 8))
             IN  /\ record.raw_timestamp = raw
                 /\ record.timestamp.text \in
                       {"Invalid timestamp", "Invalid timestamp: {timestamp}", "%Y-%m-%d %H:%M:%S"}
                 /\ Less(raw, SecondBefore1970) =>
                       record.timestamp.text = "Invalid timestamp"
                 /\ ~Less(raw, OutOfRangeFrom(platform)) =>
                       record.timestamp = [text |-> "Invalid timestamp: {timestamp}", of |-> raw]]_vars

\* Both failures in one entry, on the runtime that raises OSError: a time
\* before 1970 and the largest 64-bit value, each with its record.
BothSentinelsRecorded ==
    /\ pc = "returned"
    /\ platform.exc = "OSError"
    /\ Len(executables) = 2
    /\ executables[1].raw_timestamp = Ts100
    /\ executables[1].timestamp.text = "Invalid timestamp"
    /\ executables[2].raw_timestamp = TsMax
    /\ executables[2].timestamp = [text |-> "Invalid timestamp: {timestamp}", of |-> TsMax]

\* The entries print_summary holds for SID key i of the store.
EntriesOf(bam_data, i) ==
    {e \in 1..Len(bam_data) : bam_data[e].sid = store.subkeys[i].name}

\* C4: in a parse run every valid value of every SID key has its record in
\* the result, whatever other values of the key raise.
ValidValuesKeepTheirRecords ==
    pc = "AwaitingExportChoice" =>
        \A i \in 1..Len(store.subkeys) :
            \A j \in 1..Len(store.subkeys[i].values) :
                LET v == store.subkeys[i].values[j]
                IN  Accepted(v) =>
                        \E e \in EntriesOf(summary.bam_data, i) :
                            \E k \in 1..Len(summary.bam_data[e].executables) :
                                /\ summary.bam_data[e].executables[k].path = v.name
                                /\ summary.bam_data[e].executables[k].raw_timestamp =
                                       LittleEndian(SubSeq(v.data, 1, 8))

\* C5: _convert_timestamp returns 'Invalid timestamp' for every
\* raw_timestamp below 116444736000000000, and for none at or above it.
BelowEpochIsInvalid ==
    \A k \in 1..Len(executables) :
        Less(executables[k].raw_timestamp, EpochFiletime)
            <=> executables[k].timestamp.text = "Invalid timestamp"

\* The range rule of the build numbers.
RangeRule(b) ==
    IF b >= 17763 THEN StatePath ELSE IF b >= 16299 THEN LegacyPath ELSE None

\* C6: get_registry_path gives the state path from build 17763 on, the
\* legacy path from 16299 to 17762 and None below, where parse raises
\* ValueError before the registry is read; a listed build gets its table
\* entry, and no table entry differs from the range rule.
BuildResolvesByRange ==
    /\ \A key \in DOMAIN SUPPORTED_BUILDS : SUPPORTED_BUILDS[key] = RangeRule(Int_(key))
    /\ pc = "parsed" =>
          /\ parsed.path = RangeRule(build)
          /\ Str(build) \in DOMAIN SUPPORTED_BUILDS => parsed.path = SUPPORTED_BUILDS[Str(build)]
          /\ build < 16299 =>
                parsed.raised = "ValueError" /\ ~parsed.read /\ parsed.bam_entries = <<>>
          /\ build >= 16299 => parsed.raised = "" /\ parsed.read

\* parse has refused build 15000 without reading the registry.
UnsupportedBuildRefused ==
    /\ pc = "parsed"
    /\ build = 15000
    /\ parsed.raised = "ValueError"
    /\ ~parsed.read

\* The places of the records in bam_data: <<entry, index in the entry>>.
Positions(bam_data) ==
    UNION {{<<i, j>> : j \in 1..Len(bam_data[i].executables)} : i \in 1..Len(bam_data)}

RecordAt(bam_data, p) == bam_data[p[1]].executables[p[2]]

\* p comes before q when the entries are flattened.
Earlier(p, q) == p[1] < q[1] \/ (p[1] = q[1] /\ p[2] < q[2])

\* p is displayed before q: the later raw_timestamp first, and of two equal
\* ones the one that is earlier in the flattening.
Ahead(bam_data, p, q) ==
    \/ Less(RecordAt(bam_data, q).raw_timestamp, RecordAt(bam_data, p).raw_timestamp)
    \/ /\ RecordAt(bam_data, p).raw_timestamp = RecordAt(bam_data, q).raw_timestamp
       /\ Earlier(p, q)

Rank(bam_data, p) == 1 + Cardinality({q \in Positions(bam_data) : Ahead(bam_data, q, p)})

Min(a, b) == IF a < b THEN a ELSE b

\* C7: print_summary displays the first min(top_count, total) records of
\* the flattened entries in descending order of raw_timestamp, equal ones in
\* flattening order, each carrying the sid of its entry.
StableDescendingTopN ==
    pc = "AwaitingExportChoice" =>
        LET bam_data == summary.bam_data
            total    == Cardinality(Positions(bam_data))
        IN  /\ Len(summary.shown) = Min(top_count, total)
            /\ \A p \in Positions(bam_data) :
                  /\ RecordAt(bam_data, p).sid = bam_data[p[1]].sid
                  /\ Rank(bam_data, p) <= Len(summary.shown) =>
                        summary.shown[Rank(bam_data, p)] = RecordAt(bam_data, p)

\* Raw timestamps 100, 300, 200 in flattening order, two requested: 300 and
\* 200 are displayed.
TopTwoOfThree ==
    /\ pc = "AwaitingExportChoice"
    /\ top_count = 2
    /\ Len(summary.bam_data) = 2
    /\ Len(summary.bam_data[1].executables) = 2
    /\ Len(summary.bam_data[2].executables) = 1
    /\ [k \in 1..2 |-> summary.bam_data[1].executables[k].raw_timestamp] = <<Ts100, Ts300>>
    /\ [k \in 1..1 |-> summary.bam_data[2].executables[k].raw_timestamp] = <<Ts200>>
    /\ [k \in 1..Len(summary.shown) |-> summary.shown[k].raw_timestamp] = <<Ts300, Ts200>>
    /\ summary.shown[2].sid = SidNames[2]

\* C8: with menu choice 6 ("all") the summary displays every record,
\* however many there are, and reports no remainder.
AllDisplaysEveryRecord ==
    (pc = "AwaitingExportChoice" /\ top_count = MenuCount(6)) =>
        display_count = n_all /\ remaining = 0

\* The SID keys of the store, by name.
KeyOf(sid) == CHOOSE i \in 1..Len(store.subkeys) : store.subkeys[i].name = sid

HasKey(sid) == \E i \in 1..Len(store.subkeys) : store.subkeys[i].name = sid

\* What C9 says of a list of entries.
EmittedEntries(entries) ==
    /\ \A e \in 1..Len(entries) :
          /\ entries[e].executable_count >= 1
          /\ entries[e].executable_count = Len(entries[e].executables)
          /\ HasKey(entries[e].sid)
          /\ \E j \in 1..Len(store.subkeys[KeyOf(entries[e].sid)].values) :
                Accepted(store.subkeys[KeyOf(entries[e].sid)].values[j])
    /\ \A e, f \in 1..Len(entries) :
          e < f => KeyOf(entries[e].sid) < KeyOf(entries[f].sid)

\* C9: every entry parse returns has executable_count = len(executables)
\* >= 1, a SID key without a record has no entry, and the entries stand in
\* the order of their SID keys; so in the export and in the summary.
EmittedEntriesHaveRecords ==
    /\ EmittedEntries(export_data.bam_entries)
    /\ EmittedEntries(summary.bam_data)

\* Exported: a first SID key with nothing but a value of another type, which
\* has no entry, and a second with one record, which has.
EmptyKeyDropped ==
    /\ pc = "Done"
    /\ exported
    /\ Len(store.subkeys) = 2
    /\ Len(store.subkeys[1].values) = 1 /\ store.subkeys[1].values[1].tag = 4
    /\ Len(export_data.bam_entries) = 1
    /\ export_data.bam_entries[1].sid = store.subkeys[2].name
    /\ export_data.bam_entries[1].executable_count = 1

\* executable_count, and the length of executables, summed over the first
\* k entries.
RECURSIVE CountsUpTo(_, _)
CountsUpTo(entries, k) ==
    IF k = 0 THEN 0 ELSE CountsUpTo(entries, k - 1) + entries[k].executable_count

RECURSIVE RecordsUpTo(_, _)
RecordsUpTo(entries, k) ==
    IF k = 0 THEN 0 ELSE RecordsUpTo(entries, k - 1) + Len(entries[k].executables)

\* C10: in the export object total_executables is the sum of
\* executable_count over bam_entries, which is the number of records in all
\* executables lists, and total_entries is the number of bam_entries.
ExportTotalsMatch ==
    LET entries == export_data.bam_entries
    IN  /\ export_data.metadata.total_executables = CountsUpTo(entries, Len(entries))
        /\ export_data.metadata.total_executables = RecordsUpTo(entries, Len(entries))
        /\ export_data.metadata.total_entries = Len(entries)

\* Exported after the summary: two entries, three records.
ExportedTwoEntriesThreeRecords ==
    /\ pc = "Done"
    /\ exported
    /\ summary.bam_data # <<>>
    /\ Len(export_data.bam_entries) = 2
    /\ export_data.metadata.total_entries = 2
    /\ export_data.metadata.total_executables = 3

====
